---- MODULE Spec2Model ----
(***************************************************************************)
(* Accessor decoding tools of fastgltf (src/src/fastgltf_tools.hpp):       *)
(* getAccessorElement, iterateAccessor and copyFromAccessor over an asset  *)
(* made of byte buffers, buffer views and one accessor.                    *)
(*                                                                         *)
(* Memory is modelled at the byte level.  A pointer is a pair (buffer,     *)
(* offset); an element value is the object representation of the output    *)
(* type, a little-endian byte sequence.  Doubles are left out of the       *)
(* modelled component types: their 64-bit patterns are beyond the integer  *)
(* range of the checker.                                                   *)
(***************************************************************************)
EXTENDS Integers, Sequences, FiniteSets, TLC

\* ------------------------------------------------------------------ bounds
MaxCount == 2
MaxSparse == 2
NumSeeds == 2

\* ------------------------------------------------------------------ types
ComponentTypes ==
    {"Byte", "UnsignedByte", "Short", "UnsignedShort", "Int", "UnsignedInt", "Float"}

AccessorTypes == {"Scalar", "Vec2"}

\* std::optional<T>: empty, or holding a value.
Nullopt == [has_value |-> FALSE]
Some(v) == [has_value |-> TRUE, value |-> v]

\* fastgltf_types.hpp: number of components of an accessor type.
getNumComponents(type) ==
    CASE type = "Scalar" -> 1
      [] type = "Vec2" -> 2
      [] type = "Vec3" -> 3
      [] OTHER -> 4

\* fastgltf_types.hpp: byte width of one component.
getComponentByteSize(componentType) ==
    CASE componentType \in {"Byte", "UnsignedByte"} -> 1
      [] componentType \in {"Short", "UnsignedShort"} -> 2
      [] componentType \in {"Int", "UnsignedInt", "Float"} -> 4
      [] OTHER -> 0

\* fastgltf_types.hpp: natural packed size of one element.
getElementByteSize(type, componentType) ==
    getNumComponents(type) * getComponentByteSize(componentType)

\* The C++ arithmetic type behind a component type is named like it.
IsSignedType(t) == t \in {"Byte", "Short", "Int"}
IsFloatType(t) == t = "Float"

\* ElementTraits<ElementType>: an output element type is a record
\* [type, component_type, trivial]; trivial is std::is_trivially_copyable_v.
\* The built-in specialisations are the arithmetic scalars.
BuiltinElementTypes ==
    [type : {"Scalar"}, component_type : ComponentTypes, trivial : {TRUE}]

\* Specialisations registered by the application, as the tests register
\* glm::vec3: two flat vectors, and three types with a user-provided copy.
UserElementTypes ==
    {[type |-> "Vec2", component_type |-> "Float", trivial |-> TRUE],
     [type |-> "Vec2", component_type |-> "UnsignedShort", trivial |-> TRUE],
     [type |-> "Vec2", component_type |-> "Int", trivial |-> FALSE],
     [type |-> "Scalar", component_type |-> "Float", trivial |-> FALSE],
     [type |-> "Scalar", component_type |-> "Short", trivial |-> FALSE]}

ElementTypes == BuiltinElementTypes \cup UserElementTypes

\* sizeof(ElementType): the components, packed.
SizeOf(ElementType) ==
    getElementByteSize(ElementType.type, ElementType.component_type)

\* ElementType{} : every component zero.
ZeroElement(ElementType) == [k \in 1..SizeOf(ElementType) |-> 0]

\* ------------------------------------------------------------------ memory
Pow2(n) == 2 ^ n

\* One byte through a pointer into `buffer`.  A read outside the buffer is
\* undefined behaviour: it yields the garbage byte g chosen by the caller of
\* the model (or the run faults, see the actions).
ReadByte(buffer, addr, g) ==
    IF addr >= 0 /\ addr < Len(buffer) THEN buffer[addr + 1] ELSE g

LoadBytes(buffer, off, n, g) == [k \in 1..n |-> ReadByte(buffer, off + k - 1, g)]

\* The addresses LoadBytes touches.
Span(off, n) == {off + k : k \in 0..(n - 1)}

\* ------------------------------------------------------- numeric conversion
\* Value of a little-endian integer of at most 31 significant bits.
UVal(b) ==
    LET at(k) == IF k <= Len(b) THEN b[k] ELSE 0
    IN at(1) + 256 * at(2) + 65536 * at(3) + 16777216 * at(4)

\* Two's complement bytes of v in w bytes (\div and % round towards minus
\* infinity, so this holds for negative v as well).
Encode(w, v) ==
    [k \in 1..w |->
        CASE k = 1 -> v % 256
          [] k = 2 -> (v \div 256) % 256
          [] k = 3 -> (v \div 65536) % 256
          [] OTHER -> (v \div 16777216) % 256]

\* static_cast between integer types: sign- or zero-extend, then truncate.
IntToInt(SourceType, DestType, src) ==
    LET ext == IF IsSignedType(SourceType) /\ src[Len(src)] >= 128 THEN 255 ELSE 0
    IN [k \in 1..getComponentByteSize(DestType) |->
            IF k <= Len(src) THEN src[k] ELSE ext]

\* Position of the highest set bit of m > 0.
RECURSIVE TopBit(_)
TopBit(m) == IF m <= 1 THEN 0 ELSE 1 + TopBit(m \div 2)

\* IEEE-754 binary32 bytes from the sign bit, the biased exponent e and the
\* 23 fraction bits m.
FloatPack(sign, e, m) ==
    << m % 256, (m \div 256) % 256, (m \div 65536) + 128 * (e % 2),
       128 * sign + (e \div 2) >>

\* The same from a rounded 24-bit significand m1 in [2^23, 2^24] and binary
\* exponent p; a significand that rounded up to 2^24 carries into the exponent.
FloatNormal(sign, p, m1) ==
    IF m1 = 16777216 THEN FloatPack(sign, p + 128, 0)
    ELSE FloatPack(sign, p + 127, m1 - 8388608)

\* Round to nearest, ties to even: whether mant is incremented when the
\* remainder rem is dropped, half being half a unit of mant.
RoundsUp(mant, rem, half) == rem > half \/ (rem = half /\ mant % 2 = 1)

\* IEEE-754 binary32 bytes from sign, exponent position p and a magnitude
\* given as mant * 2^sh + rem (rem < 2^sh), mant in [2^23, 2^24).
FloatBits(sign, p, mant, rem, sh) ==
    FloatNormal(sign, p,
                IF sh > 0 /\ RoundsUp(mant, rem, Pow2(sh - 1)) THEN mant + 1 ELSE mant)

\* Whether the integer pattern src of type SourceType is negative.
IsNegative(SourceType, src) == IsSignedType(SourceType) /\ src[Len(src)] >= 128

\* |value| of an integer pattern whose magnitude is below 2^31.
Magnitude(SourceType, src) ==
    IF IsNegative(SourceType, src)
    THEN IF Len(src) = 4
         THEN (255 - src[1]) + 256 * (255 - src[2])
              + 65536 * (255 - src[3]) + 16777216 * (255 - src[4]) + 1
         ELSE Pow2(8 * Len(src)) - UVal(src)
    ELSE UVal(src)

\* The float nearest to (-1)^sign * mag, p being the highest set bit of mag.
FloatOfMagnitude(sign, mag, p) ==
    IF mag = 0 THEN <<0, 0, 0, 0>>
    ELSE IF p <= 23 THEN FloatBits(sign, p, mag * Pow2(23 - p), 0, 0)
    ELSE FloatBits(sign, p, mag \div Pow2(p - 23), mag % Pow2(p - 23), p - 23)

FloatOfSigned(sign, mag) == FloatOfMagnitude(sign, mag, TopBit(mag))

\* The float nearest to 2 * h + s, for an unsigned value of 2^31 or more
\* given by its upper 31 bits h and its lowest bit s.
FloatOfHalved(h, s) == FloatBits(0, 31, h \div 128, (h % 128) * 2 + s, 8)

\* static_cast<float>(integer).
IntToFloat(SourceType, src) ==
    IF Len(src) = 4 /\ src[4] >= 128 /\ ~IsSignedType(SourceType)
    THEN FloatOfHalved(src[4] * 8388608 + src[3] * 32768 + src[2] * 128 + (src[1] \div 2),
                       src[1] % 2)
    ELSE IF src = <<0, 0, 0, 128>>
    THEN <<0, 0, 0, 207>>               \* -2^31
    ELSE FloatOfSigned(IF IsNegative(SourceType, src) THEN 1 ELSE 0,
                       Magnitude(SourceType, src))

\* Whether an integer of w bytes of type DestType holds v (|v| < 2^31).
Fits(DestType, w, v) ==
    IF IsSignedType(DestType)
    THEN w = 4 \/ (v >= 0 - Pow2(8 * w - 1) /\ v < Pow2(8 * w - 1))
    ELSE v >= 0 /\ (w = 4 \/ v < Pow2(8 * w))

\* The bytes of v, or the undefined result when DestType cannot hold v.
EncodeIfFits(DestType, w, v, undef) ==
    IF Fits(DestType, w, v) THEN Encode(w, v) ELSE undef

\* M * 2^E with the fraction discarded, for E < 8.
Truncate(M, E) ==
    IF E >= 0 THEN M * Pow2(E)
    ELSE IF 0 - E >= 24 THEN 0 ELSE M \div Pow2(0 - E)

\* static_cast<integer> of the float (-1)^sign * M * 2^E; e = 255 marks NaN
\* and infinity.
FloatToIntParts(DestType, w, sign, e, M, E, undef) ==
    IF e = 255 \/ E > 8 THEN undef
    ELSE IF E = 8
    THEN \* 2^31 <= |value| < 2^32
         IF DestType = "UnsignedInt" /\ sign = 0
         THEN <<0, M % 256, (M \div 256) % 256, M \div 65536>>
         ELSE IF DestType = "Int" /\ sign = 1 /\ M = 8388608
         THEN <<0, 0, 0, 128>>
         ELSE undef
    ELSE EncodeIfFits(DestType, w,
                      IF sign = 1 THEN 0 - Truncate(M, E) ELSE Truncate(M, E), undef)

\* The same from the biased exponent e and the fraction bits m.
FloatToIntFields(DestType, sign, e, m, undef) ==
    FloatToIntParts(DestType, Len(undef), sign, e,
                    IF e = 0 THEN m ELSE m + 8388608,
                    (IF e = 0 THEN 1 ELSE e) - 150, undef)

\* static_cast<integer>(float): truncation towards zero.  A value the
\* destination cannot hold (and NaN, infinity) is undefined behaviour: the
\* result is then the byte u repeated, u chosen by the caller of the model.
FloatToInt(DestType, src, u) ==
    FloatToIntFields(DestType, src[4] \div 128,
                     (src[4] % 128) * 2 + (src[3] \div 128),
                     src[1] + 256 * src[2] + 65536 * (src[3] % 128),
                     [k \in 1..getComponentByteSize(DestType) |-> u])

StaticCast(SourceType, DestType, src, u) ==
    IF IsFloatType(SourceType)
    THEN IF IsFloatType(DestType) THEN src ELSE FloatToInt(DestType, src, u)
    ELSE IF IsFloatType(DestType) THEN IntToFloat(SourceType, src)
         ELSE IntToInt(SourceType, DestType, src)

\* Mutant of convertComponent: the component is located with the size of the
\* destination type instead of the source type.
convertComponentDestIndexed(SourceType, DestType, Index, buffer, off, g, u) ==
    StaticCast(SourceType, DestType,
               LoadBytes(buffer, off + Index * getComponentByteSize(DestType),
                         getComponentByteSize(SourceType), g),
               u)

\* internal::convertComponent<SourceType, DestType, Index>(bytes)
convertComponent(SourceType, DestType, Index, buffer, off, g, u) ==
    StaticCast(SourceType, DestType,
               LoadBytes(buffer, off + Index * getComponentByteSize(SourceType),
                         getComponentByteSize(SourceType), g),
               u)

\* Flattens a sequence of byte sequences of equal length w.
Flatten(parts, w) ==
    [k \in 1..(Len(parts) * w) |-> parts[((k - 1) \div w) + 1][((k - 1) % w) + 1]]

\* internal::convertAccessorElement<ElementType, SourceType>(bytes, Seq{})
convertAccessorElement(ElementType, SourceType, buffer, off, g, u) ==
    Flatten([I \in 1..getNumComponents(ElementType.type) |->
                convertComponent(SourceType, ElementType.component_type, I - 1,
                                 buffer, off, g, u)],
            getComponentByteSize(ElementType.component_type))

\* The SourceType the switch of getAccessorElementAt selects.
SourceTypeOf(componentType) ==
    IF componentType \in ComponentTypes THEN componentType ELSE "Byte"

\* internal::getAccessorElementAt<ElementType>(componentType, bytes)
getAccessorElementAt(ElementType, componentType, buffer, off, g, u) ==
    convertAccessorElement(ElementType, SourceTypeOf(componentType), buffer, off, g, u)

\* The addresses getAccessorElementAt reads.
ReadsAt(ElementType, componentType, off) ==
    Span(off, getNumComponents(ElementType.type)
              * getComponentByteSize(SourceTypeOf(componentType)))

\* ------------------------------------------------------------------ asset
\* DefaultBufferDataAdapter: the bytes of an owned vector or a borrowed byte
\* view; nullptr for any other variant.  A null pointer is a pointer to
\* nothing: the empty byte sequence, every address of which is invalid.
DefaultBufferDataAdapter(buffer) ==
    IF buffer.data \in {"Vector", "ByteView"} THEN buffer.bytes ELSE <<>>

\* asset.bufferViews[i] and asset.buffers[i], indexed from 0 as in the code.
ViewAt(asset, i) == asset.bufferViews[i + 1]
BufferAt(asset, i) == asset.buffers[i + 1]

\* ElementTraits<std::uint32_t>
Uint32Type == [type |-> "Scalar", component_type |-> "UnsignedInt", trivial |-> TRUE]

\* The number a decoded std::uint32_t sparse index holds.  Every buffer of
\* the model is far shorter than 65536 bytes, so all larger indices address
\* invalid memory alike and are represented by 65536.
IndexValue(b) == IF b[3] # 0 \/ b[4] # 0 THEN 65536 ELSE b[1] + 256 * b[2]

\* Tags the addresses of one buffer with the index of the buffer.
Tag(bufferIndex, addrs) == {<<bufferIndex, a>> : a \in addrs}

\* Whether a tagged address lies outside its buffer (or behind a null pointer).
Invalid(asset, r) ==
    r[2] < 0 \/ r[2] >= Len(DefaultBufferDataAdapter(BufferAt(asset, r[1])))

\* The pointers and strides the three operations compute for a sparse accessor.
SparseLayout(asset, accessor) ==
    [indicesBuffer |-> ViewAt(asset, accessor.sparse.value.bufferViewIndices).bufferIndex,
     indicesBytes |-> ViewAt(asset, accessor.sparse.value.bufferViewIndices).byteOffset
                      + accessor.sparse.value.byteOffsetIndices,
     indexStride |-> getElementByteSize("Scalar", accessor.sparse.value.indexComponentType),
     valuesBuffer |-> ViewAt(asset, accessor.sparse.value.bufferViewValues).bufferIndex,
     valuesBytes |-> ViewAt(asset, accessor.sparse.value.bufferViewValues).byteOffset
                     + accessor.sparse.value.byteOffsetValues,
     valueStride |-> getElementByteSize(accessor.type, accessor.componentType)]

\* The element at values array position idx, idx having been read at idxOff.
SparseValueAt(ElementType, asset, accessor, L, idxOff, idx, valOff, g) ==
    [idx |-> idx,
     value |-> getAccessorElementAt(ElementType, accessor.componentType,
                   DefaultBufferDataAdapter(BufferAt(asset, L.valuesBuffer)), valOff, g, g),
     reads |-> Tag(L.indicesBuffer,
                   ReadsAt(Uint32Type, accessor.sparse.value.indexComponentType, idxOff))
               \cup Tag(L.valuesBuffer, ReadsAt(ElementType, accessor.componentType, valOff))]

\* The index read at idxOff selects the position in the values array.
SparseIndexed(ElementType, asset, accessor, L, idxOff, idx, g) ==
    SparseValueAt(ElementType, asset, accessor, L, idxOff, idx,
                  L.valuesBytes + L.valueStride * idx, g)

\* The std::uint32_t index read at idxOff of the index array.
SparseIndexAt(ElementType, asset, accessor, L, idxOff, g) ==
    SparseIndexed(ElementType, asset, accessor, L, idxOff,
                  IndexValue(getAccessorElementAt(Uint32Type,
                      accessor.sparse.value.indexComponentType,
                      DefaultBufferDataAdapter(BufferAt(asset, L.indicesBuffer)),
                      idxOff, g, g)),
                  g)

SparseFetchIn(ElementType, asset, accessor, L, i, g) ==
    SparseIndexAt(ElementType, asset, accessor, L, L.indicesBytes + L.indexStride * i, g)

\* One round of the sparse loops: the index read at position i of the index
\* array and the element read at that index of the values array.
SparseFetch(ElementType, asset, accessor, i, g) ==
    SparseFetchIn(ElementType, asset, accessor, SparseLayout(asset, accessor), i, g)

\* Mutant of DenseLayout: view.byteStride is ignored, the elements are taken
\* to be packed.
DenseLayoutPacked(asset, accessor, v) ==
    LET view == ViewAt(asset, v)
    IN [buffer |-> view.bufferIndex,
        stride |-> getElementByteSize(accessor.type, accessor.componentType),
        bytes |-> view.byteOffset + accessor.byteOffset]

\* The source pointer and stride of a dense accessor through view number v.
DenseLayout(asset, accessor, v) ==
    LET view == ViewAt(asset, v)
    IN [buffer |-> view.bufferIndex,
        stride |-> IF view.byteStride.has_value THEN view.byteStride.value
                   ELSE getElementByteSize(accessor.type, accessor.componentType),
        bytes |-> view.byteOffset + accessor.byteOffset]

\* getAccessorElementAt on the element at offset off of buffer number b.
DenseFetchAt(ElementType, asset, accessor, b, off, g) ==
    [value |-> getAccessorElementAt(ElementType, accessor.componentType,
                   DefaultBufferDataAdapter(BufferAt(asset, b)), off, g, g),
     reads |-> Tag(b, ReadsAt(ElementType, accessor.componentType, off))]

DenseFetchIn(ElementType, asset, accessor, L, i, g) ==
    DenseFetchAt(ElementType, asset, accessor, L.buffer, L.bytes + i * L.stride, g)

\* getAccessorElementAt on element i of a dense accessor through view v.
DenseFetch(ElementType, asset, accessor, v, i, g) ==
    DenseFetchIn(ElementType, asset, accessor, DenseLayout(asset, accessor, v), i, g)

\* ------------------------------------------------------------- operations
\* What a single fetch contributes to the result of getAccessorElement.
Fetched(f) == [value |-> f.value, reads |-> f.reads]

\* getAccessorElement<ElementType>(asset, accessor, index)
getAccessorElement(ElementType, asset, accessor, index, g) ==
    IF accessor.sparse.has_value
    THEN Fetched(SparseFetch(ElementType, asset, accessor, index, g))
    ELSE IF ~accessor.bufferViewIndex.has_value
    THEN [value |-> ZeroElement(ElementType), reads |-> {}]
    ELSE DenseFetch(ElementType, asset, accessor, accessor.bufferViewIndex.value, index, g)

\* The functor calls and the reads of a loop that made the fetches `fs`.
Iterated(fs, wild) ==
    [calls |-> [k \in 1..Len(fs) |-> fs[k].value],
     reads |-> UNION {fs[k].reads : k \in 1..Len(fs)},
     wild |-> wild]

\* iterateAccessor<ElementType>(asset, accessor, func).  calls is the sequence
\* of elements handed to func, in call order.  w is the view index that
\* dereferencing an empty accessor.bufferViewIndex yields (undefined behaviour).
iterateAccessor(ElementType, asset, accessor, g, w) ==
    IF accessor.type # ElementType.type
    THEN Iterated(<<>>, FALSE)
    ELSE IF accessor.sparse.has_value
    THEN Iterated([k \in 1..accessor.sparse.value.count |->
                      SparseFetch(ElementType, asset, accessor, k - 1, g)],
                  FALSE)
    ELSE Iterated([k \in 1..accessor.count |->
                      DenseFetch(ElementType, asset, accessor,
                                 IF accessor.bufferViewIndex.has_value
                                 THEN accessor.bufferViewIndex.value ELSE w,
                                 k - 1, g)],
                  ~accessor.bufferViewIndex.has_value)

\* Stores `bytes` at dest + off; the bytes that fall outside the destination
\* are dropped here and reported by WritesOf.
WriteBytes(dest, off, bytes) ==
    [k \in 1..Len(dest) |->
        IF k - 1 >= off /\ k - 1 < off + Len(bytes) THEN bytes[k - off] ELSE dest[k]]

\* Applies the stores of `chunks` (records [off, bytes]) from the i-th on, in order.
RECURSIVE WriteAll(_, _, _)
WriteAll(dest, chunks, i) ==
    IF i > Len(chunks) THEN dest
    ELSE WriteAll(WriteBytes(dest, chunks[i].off, chunks[i].bytes), chunks, i + 1)

WritesOf(chunks) == UNION {Span(chunks[i].off, Len(chunks[i].bytes)) : i \in 1..Len(chunks)}

\* The stores and reads of a loop that assigns each fetched element through
\* an ElementType pointer at dstBytes + TargetStride * i.
Assigned(fs, TargetStride) ==
    [chunks |-> [k \in 1..Len(fs) |->
                    [off |-> TargetStride * (k - 1), bytes |-> fs[k].value]],
     reads |-> UNION {fs[k].reads : k \in 1..Len(fs)}]

\* The loop of lines 368-371: each element converted by getAccessorElementAt
\* and assigned through an ElementType pointer at dstBytes + TargetStride * i.
ConvertCopy(ElementType, TargetStride, asset, accessor, g) ==
    Assigned([k \in 1..accessor.count |->
                 DenseFetch(ElementType, asset, accessor,
                            accessor.bufferViewIndex.value, k - 1, g)],
             TargetStride)

ConvertCopyChunks(ElementType, TargetStride, asset, accessor, g) ==
    ConvertCopy(ElementType, TargetStride, asset, accessor, g).chunks

\* The zero fill of lines 329-351, elemSize being the accessor's element size.
ZeroFill(ElementType, TargetStride, accessor, elemSize) ==
    [chunks |->
        IF ElementType.trivial
        THEN IF TargetStride = elemSize
             THEN << [off |-> 0, bytes |-> [k \in 1..(elemSize * accessor.count) |-> 0]] >>
             ELSE [k \in 1..accessor.count |->
                      [off |-> (k - 1) * TargetStride, bytes |-> [j \in 1..elemSize |-> 0]]]
        ELSE [k \in 1..accessor.count |->
                 [off |-> TargetStride * (k - 1), bytes |-> ZeroElement(ElementType)]],
     reads |-> {}]

\* The std::memcpy calls of lines 360-365 from source layout L.
MemCopy(TargetStride, accessor, L, src, elemSize, g) ==
    IF L.stride = elemSize /\ L.stride = TargetStride
    THEN [chunks |-> << [off |-> 0,
                         bytes |-> LoadBytes(src, L.bytes, elemSize * accessor.count, g)] >>,
          reads |-> Tag(L.buffer, Span(L.bytes, elemSize * accessor.count))]
    ELSE [chunks |-> [k \in 1..accessor.count |->
                         [off |-> TargetStride * (k - 1),
                          bytes |-> LoadBytes(src, L.bytes + L.stride * (k - 1), elemSize, g)]],
          reads |-> UNION {Tag(L.buffer, Span(L.bytes + L.stride * i, elemSize)) :
                              i \in 0..(accessor.count - 1)}]

\* The memcpy branch through the accessor's buffer view.
MemCopyIn(TargetStride, asset, accessor, L, g) ==
    MemCopy(TargetStride, accessor, L, DefaultBufferDataAdapter(BufferAt(asset, L.buffer)),
            getElementByteSize(accessor.type, accessor.componentType), g)

\* Mutant of CopyPlan: the accessor.type != Traits::type test is left out.
CopyPlanUnchecked(ElementType, TargetStride, asset, accessor, g) ==
    IF accessor.sparse.has_value
    THEN Assigned([k \in 1..accessor.sparse.value.count |->
                      SparseFetch(ElementType, asset, accessor, k - 1, g)],
                  TargetStride)
    ELSE IF ~accessor.bufferViewIndex.has_value
    THEN ZeroFill(ElementType, TargetStride, accessor,
                  getElementByteSize(accessor.type, accessor.componentType))
    ELSE IF ElementType.trivial
    THEN MemCopyIn(TargetStride, asset, accessor,
                   DenseLayout(asset, accessor, accessor.bufferViewIndex.value), g)
    ELSE ConvertCopy(ElementType, TargetStride, asset, accessor, g)

\* The stores and loads of copyFromAccessor, by branch.
CopyPlan(ElementType, TargetStride, asset, accessor, g) ==
    IF accessor.type # ElementType.type THEN Assigned(<<>>, TargetStride)
    ELSE IF accessor.sparse.has_value
    THEN Assigned([k \in 1..accessor.sparse.value.count |->
                      SparseFetch(ElementType, asset, accessor, k - 1, g)],
                  TargetStride)
    ELSE IF ~accessor.bufferViewIndex.has_value
    THEN ZeroFill(ElementType, TargetStride, accessor,
                  getElementByteSize(accessor.type, accessor.componentType))
    ELSE IF ElementType.trivial
    THEN MemCopyIn(TargetStride, asset, accessor,
                   DenseLayout(asset, accessor, accessor.bufferViewIndex.value), g)
    ELSE ConvertCopy(ElementType, TargetStride, asset, accessor, g)

\* The destination after the stores of `plan`, with what was read and written.
Copied(dest, plan) ==
    [dest |-> WriteAll(dest, plan.chunks, 1),
     reads |-> plan.reads,
     writes |-> WritesOf(plan.chunks)]

\* copyFromAccessor<ElementType, TargetStride>(asset, accessor, dest)
copyFromAccessor(ElementType, TargetStride, asset, accessor, dest, g) ==
    Copied(dest, CopyPlan(ElementType, TargetStride, asset, accessor, g))

\* ------------------------------------------------------------------ inputs
\* Component bit patterns the buffers are filled with, four per type:
\* integers 1, -1 (or the maximum), the minimum (or the middle) and a mixed
\* pattern; floats 1.0, -2.5, 2^31 and 300.75.
Samples(componentType) ==
    CASE componentType \in {"Byte", "UnsignedByte"} -> << <<1>>, <<255>>, <<128>>, <<52>> >>
      [] componentType \in {"Short", "UnsignedShort"} ->
            << <<1, 0>>, <<255, 255>>, <<0, 128>>, <<52, 18>> >>
      [] componentType \in {"Int", "UnsignedInt"} ->
            << <<1, 0, 0, 0>>, <<255, 255, 255, 255>>, <<0, 0, 0, 128>>, <<3, 0, 0, 1>> >>
      [] OTHER -> << <<0, 0, 128, 63>>, <<0, 0, 32, 192>>, <<0, 0, 0, 79>>, <<0, 96, 150, 67>> >>

\* The bytes of one element whose first component is sample number `first`.
SampleElement(type, componentType, first) ==
    Flatten([c \in 1..getNumComponents(type) |->
                Samples(componentType)[((first + c - 1) % 4) + 1]],
            getComponentByteSize(componentType))

\* A buffer holding `count` such elements from `base` on, `stride` apart;
\* every other byte is the filler 238.
ElementBuffer(type, componentType, count, base, stride, first) ==
    LET elemSize == getElementByteSize(type, componentType)
        n == getNumComponents(type)
        len == IF count = 0 THEN base ELSE base + (count - 1) * stride + elemSize
    IN [k \in 1..len |->
          LET a == k - 1 - base
          IN IF a >= 0 /\ a % stride < elemSize
             THEN SampleElement(type, componentType, first + n * (a \div stride))[(a % stride) + 1]
             ELSE 238]

\* The sparse buffer: the index array, filler up to a multiple of four, the
\* values array.
SparseBuffer(type, componentType, ict, idxs, first) ==
    LET iw == getComponentByteSize(ict)
        ilen == iw * Len(idxs)
        voff == 4 * ((ilen + 3) \div 4)
        values == ElementBuffer(type, componentType, Len(idxs), 0,
                                getElementByteSize(type, componentType), first)
    IN [k \in 1..(voff + Len(values)) |->
          IF k <= ilen THEN Encode(iw, idxs[((k - 1) \div iw) + 1])[((k - 1) % iw) + 1]
          ELSE IF k <= voff THEN 238
          ELSE values[k - voff]]

\* The asset and the accessor built from one choice of parameters.
\* layout = <<hasView, strided, view.byteOffset, accessor.byteOffset>>;
\* sp = Nullopt, or Some([ict, idxs]): the sparse index type and index list.
MakeAsset(type, componentType, count, layout, seed, sp) ==
    LET elemSize == getElementByteSize(type, componentType)
        stride == IF layout[2] THEN elemSize + 4 ELSE elemSize
        data == [data |-> "Vector",
                 bytes |-> ElementBuffer(type, componentType, count,
                                         layout[3] + layout[4], stride, 2 * seed)]
        dataView == [bufferIndex |-> 0, byteOffset |-> layout[3],
                     byteStride |-> IF layout[2] THEN Some(stride) ELSE Nullopt]
    IN IF ~sp.has_value
       THEN [buffers |-> <<data>>, bufferViews |-> <<dataView>>]
       ELSE LET ilen == getComponentByteSize(sp.value.ict) * Len(sp.value.idxs)
            IN [buffers |-> <<data,
                              [data |-> "ByteView",
                               bytes |-> SparseBuffer(type, componentType, sp.value.ict,
                                                      sp.value.idxs,
                                                      2 * seed + 3)]>>,
                bufferViews |-> <<dataView,
                                  [bufferIndex |-> 1, byteOffset |-> 0, byteStride |-> Nullopt],
                                  [bufferIndex |-> 1, byteOffset |-> 4 * ((ilen + 3) \div 4),
                                   byteStride |-> Nullopt]>>]

MakeAccessor(type, componentType, count, layout, sp) ==
    [bufferViewIndex |-> IF layout[1] THEN Some(0) ELSE Nullopt,
     byteOffset |-> layout[4],
     componentType |-> componentType,
     type |-> type,
     count |-> count,
     sparse |-> IF ~sp.has_value THEN Nullopt
                ELSE Some([count |-> Len(sp.value.idxs),
                      bufferViewIndices |-> 1, byteOffsetIndices |-> 0,
                      indexComponentType |-> sp.value.ict,
                      bufferViewValues |-> 2, byteOffsetValues |-> 0])]

Layouts ==
    {<<FALSE, FALSE, 0, 0>>, <<TRUE, FALSE, 0, 0>>, <<TRUE, TRUE, 0, 0>>,
     <<TRUE, FALSE, 4, 8>>, <<TRUE, TRUE, 4, 8>>}

\* The layouts of the dense data under a sparse accessor.
SparseLayouts == {<<FALSE, FALSE, 0, 0>>, <<TRUE, TRUE, 4, 8>>}

\* Sparse index lists: any list of at most MaxSparse indices in 0..count, so
\* the well-formed lists (strictly ascending, below count) and the malformed.
\* The index type alternates with the seed.
SparseChoices(count, seed) ==
    {Some([ict |-> IF seed % 2 = 0 THEN "UnsignedByte" ELSE "UnsignedShort",
           idxs |-> idxs]) :
        idxs \in UNION {[1..sc -> 0..count] : sc \in 0..MaxSparse}}

\* ------------------------------------------------------------------ state
VARIABLES
    asset,      \* buffers and buffer views
    accessor,   \* the accessor the operations are called on
    pc,         \* "idle", or "returned" after an operation
    call,       \* the operation called, its template and call arguments, and
                \* how the run resolved undefined behaviour (g, w)
    outcome,    \* "none", "ok", or "fault" (a crash on undefined behaviour)
    result,     \* the element getAccessorElement returned
    visited,    \* the elements handed to the functor of iterateAccessor, in order
    dest,       \* the destination memory of copyFromAccessor
    reads,      \* the source addresses <<buffer, offset>> the operation read
    writes      \* the destination offsets copyFromAccessor stored to

vars == <<asset, accessor, pc, call, outcome, result, visited, dest, reads, writes>>

NoCall == [op |-> "none"]

\* The byte an uninitialised or invalid location yields.
Garbage == {0, 255}

\* Caller-owned destination memory before the copy: count slots of
\* TargetStride bytes, each byte 205.
FreshDest(TargetStride, count) == [k \in 1..(TargetStride * count) |-> 205]

\* The destination strides called with: sizeof(ElementType), the default, and
\* an interleaved layout four bytes wider.
TargetStrides(ElementType) == {SizeOf(ElementType), SizeOf(ElementType) + 4}

Idle ==
    /\ pc = "idle"
    /\ call = NoCall
    /\ outcome = "none"
    /\ result = <<>>
    /\ visited = <<>>
    /\ dest = <<>>
    /\ reads = {}
    /\ writes = {}

\* Assets whose accessor has no sparse overlay.
InitDense ==
    /\ \E type \in AccessorTypes, componentType \in ComponentTypes,
          count \in 0..MaxCount, layout \in Layouts, seed \in 0..(NumSeeds - 1) :
            /\ asset = MakeAsset(type, componentType, count, layout, seed, Nullopt)
            /\ accessor = MakeAccessor(type, componentType, count, layout, Nullopt)
    /\ Idle

\* Assets whose accessor has a sparse overlay.
InitSparse ==
    /\ \E type \in AccessorTypes, componentType \in ComponentTypes,
          count \in 0..MaxCount, layout \in SparseLayouts, seed \in 0..(NumSeeds - 1) :
         \E sp \in SparseChoices(count, seed) :
            /\ asset = MakeAsset(type, componentType, count, layout, seed, sp)
            /\ accessor = MakeAccessor(type, componentType, count, layout, sp)
    /\ Idle

\* The buffer data variants DefaultBufferDataAdapter has no bytes for: the
\* data was never loaded into memory.
UnloadedSources == {"URI", "CustomBuffer"}

\* The asset `a` with its data buffer held as `source` instead of in memory.
Unloaded(a, source) == [a EXCEPT !.buffers[1] = [data |-> source, bytes |-> <<>>]]

\* Assets whose accessor has a buffer view over a buffer that is not in memory.
InitUnloaded ==
    /\ \E type \in AccessorTypes, componentType \in ComponentTypes,
          count \in 0..MaxCount, layout \in SparseLayouts \ {<<FALSE, FALSE, 0, 0>>},
          source \in UnloadedSources :
            /\ asset = Unloaded(MakeAsset(type, componentType, count, layout, 0, Nullopt),
                                source)
            /\ accessor = MakeAccessor(type, componentType, count, layout, Nullopt)
    /\ Idle

Init == InitDense \/ InitSparse \/ InitUnloaded

\* Whether the operation ran into undefined behaviour that can crash: a read
\* outside a buffer, a store outside the destination, an empty optional.
Undefined(rd, wr, destLen, wild) ==
    \/ wild
    \/ \E r \in rd : Invalid(asset, r)
    \/ \E a \in wr : a < 0 \/ a >= destLen

GetAccessorElement ==
    /\ pc = "idle"
    /\ \E ElementType \in ElementTypes, index \in 0..accessor.count,
          g \in Garbage, fault \in BOOLEAN :
         \E r \in {getAccessorElement(ElementType, asset, accessor, index, g)} :
            /\ fault => g = 0 /\ Undefined(r.reads, {}, 0, FALSE)
            /\ call' = [op |-> "getAccessorElement", ElementType |-> ElementType,
                        index |-> index, g |-> g]
            /\ outcome' = IF fault THEN "fault" ELSE "ok"
            /\ result' = IF fault THEN <<>> ELSE r.value
            /\ reads' = r.reads
    /\ pc' = "returned"
    /\ UNCHANGED <<asset, accessor, visited, dest, writes>>

IterateAccessor ==
    /\ pc = "idle"
    /\ \E ElementType \in ElementTypes, g \in Garbage, fault \in BOOLEAN,
          w \in 0..(Len(asset.bufferViews) - 1) :
         \E r \in {iterateAccessor(ElementType, asset, accessor, g, w)} :
            /\ fault => g = 0 /\ Undefined(r.reads, {}, 0, r.wild)
            /\ call' = [op |-> "iterateAccessor", ElementType |-> ElementType,
                        g |-> g, w |-> w]
            /\ outcome' = IF fault THEN "fault" ELSE "ok"
            /\ visited' = IF fault THEN <<>> ELSE r.calls
            /\ reads' = r.reads
    /\ pc' = "returned"
    /\ UNCHANGED <<asset, accessor, result, dest, writes>>

CopyFromAccessor ==
    /\ pc = "idle"
    /\ \E ElementType \in ElementTypes, g \in Garbage, fault \in BOOLEAN :
         \E TargetStride \in TargetStrides(ElementType) :
            \E r \in {copyFromAccessor(ElementType, TargetStride, asset, accessor,
                                       FreshDest(TargetStride, accessor.count), g)} :
               /\ fault => g = 0 /\ Undefined(r.reads, r.writes,
                                              TargetStride * accessor.count, FALSE)
               /\ call' = [op |-> "copyFromAccessor", ElementType |-> ElementType,
                           TargetStride |-> TargetStride, g |-> g]
               /\ outcome' = IF fault THEN "fault" ELSE "ok"
               /\ dest' = IF fault THEN FreshDest(TargetStride, accessor.count) ELSE r.dest
               /\ reads' = r.reads
               /\ writes' = r.writes
    /\ pc' = "returned"
    /\ UNCHANGED <<asset, accessor, result, visited>>

\* The caller takes the result and is ready for the next call.
Return ==
    /\ pc = "returned"
    /\ pc' = "idle"
    /\ call' = NoCall
    /\ outcome' = "none"
    /\ result' = <<>>
    /\ visited' = <<>>
    /\ dest' = <<>>
    /\ reads' = {}
    /\ writes' = {}
    /\ UNCHANGED <<asset, accessor>>

Next == GetAccessorElement \/ IterateAccessor \/ CopyFromAccessor \/ Return

Spec == Init /\ [][Next]_vars

\* The same program on the assets without a sparse overlay.
SpecDense == InitDense /\ [][Next]_vars

\* ------------------------------------------------------------------ claims
Returned(op) == pc = "returned" /\ call.op = op

TypeMatches == call.ElementType.type = accessor.type

\* The sparse index stored at position k of the index array.
SparseIndex(k) == SparseFetch(Uint32Type, asset, accessor, k, 0).idx

SparseCount == IF accessor.sparse.has_value THEN accessor.sparse.value.count ELSE 0

\* The data model's invariant on sparse indices: below accessor.count and
\* strictly ascending.
WellFormedSparse ==
    \A k \in 0..(SparseCount - 1) :
        /\ SparseIndex(k) < accessor.count
        /\ k > 0 => SparseIndex(k) > SparseIndex(k - 1)

\* The element at position k of the sparse values array.
OverlayValue(ElementType, k) ==
    LET L == SparseLayout(asset, accessor)
    IN getAccessorElementAt(ElementType, accessor.componentType,
           DefaultBufferDataAdapter(BufferAt(asset, L.valuesBuffer)),
           L.valuesBytes + L.valueStride * k, call.g, call.g)

\* The dense element at logical index i, zero without a buffer view.
BaseElement(ElementType, i) ==
    IF accessor.bufferViewIndex.has_value
    THEN DenseFetch(ElementType, asset, accessor, accessor.bufferViewIndex.value,
                    i, call.g).value
    ELSE ZeroElement(ElementType)

Covered(i) == \E k \in 0..(SparseCount - 1) : SparseIndex(k) = i

\* The element of logical index i as the sparse accessor test computes its
\* expected values: the overlay value where the index list holds i, the base
\* element elsewhere.
MergedElement(ElementType, i) ==
    IF Covered(i)
    THEN OverlayValue(ElementType, CHOOSE k \in 0..(SparseCount - 1) : SparseIndex(k) = i)
    ELSE BaseElement(ElementType, i)

\* The destination slot of element i after copyFromAccessor.
Slot(i) ==
    [k \in 1..SizeOf(call.ElementType) |-> dest[call.TargetStride * i + k]]

\* C1: under a sparse accessor, getAccessorElement(i) for i < accessor.count
\* returns the overlay value at position k when the sparse index array holds
\* i at position k, and the dense base element (zero without a buffer view)
\* otherwise.
C1_SparseGetMerges ==
    (/\ Returned("getAccessorElement")
     /\ accessor.sparse.has_value
     /\ WellFormedSparse
     /\ TypeMatches
     /\ call.index < accessor.count)
    => /\ outcome = "ok"
       /\ result = MergedElement(call.ElementType, call.index)

\* C2: for an accessor whose type matches the output type, iterateAccessor
\* invokes the visitor exactly accessor.count times and the k-th invocation
\* receives the element of logical index k.
C2_IterateVisitsEachIndexOnce ==
    (/\ Returned("iterateAccessor")
     /\ WellFormedSparse
     /\ TypeMatches)
    => /\ outcome = "ok"
       /\ Len(visited) = accessor.count
       /\ \A k \in 1..accessor.count :
             k <= Len(visited) /\ visited[k] = MergedElement(call.ElementType, k - 1)

\* C3: after copyFromAccessor on an accessor whose type matches, the
\* destination slot at i * TargetStride holds the value getAccessorElement(i)
\* returns, for every i < accessor.count, and iterateAccessor hands the
\* visitor that same sequence.
C3_CopyAgreesWithGetAndIterate ==
    (/\ Returned("copyFromAccessor")
     /\ outcome = "ok"
     /\ WellFormedSparse
     /\ TypeMatches)
    => LET E == call.ElementType
           seq == [k \in 1..accessor.count |->
                      getAccessorElement(E, asset, accessor, k - 1, call.g).value]
       IN /\ \A i \in 0..(accessor.count - 1) : Slot(i) = seq[i + 1]
          /\ \A w \in 0..(Len(asset.bufferViews) - 1) :
                iterateAccessor(E, asset, accessor, call.g, w).calls = seq

\* ---- the numeric meaning of a component conversion, for C4
\* A 32-bit pattern read as a signed number.
S32(b) ==
    b[1] + 256 * b[2] + 65536 * b[3]
    + 16777216 * (IF b[4] >= 128 THEN b[4] - 256 ELSE b[4])

\* The number an integer pattern of type t holds; a 32-bit unsigned pattern
\* with the top bit set is given 2^32 less (its signed reading).
NumVal(t, b) ==
    IF Len(b) = 4 THEN S32(b)
    ELSE IF IsSignedType(t) /\ b[Len(b)] >= 128 THEN UVal(b) - Pow2(8 * Len(b))
    ELSE UVal(b)

\* Whether the 32-bit pattern of type t holds a number of magnitude >= 2^31.
Wide(t, b) == Len(b) = 4 /\ b[4] >= 128 /\ (~IsSignedType(t) \/ b = <<0, 0, 0, 128>>)

\* Integer to integer: the result is congruent to the source modulo 2^N.
IntCastOk(S, D, src, dst) ==
    LET wd == getComponentByteSize(D)
    IN IF wd = 4 THEN S32(dst) = NumVal(S, src)
       ELSE NumVal(D, dst) % Pow2(8 * wd) = NumVal(S, src) % Pow2(8 * wd)

\* Sign, biased exponent and fraction of a binary32 pattern.
FSign(b) == b[4] \div 128
FExp(b) == (b[4] % 128) * 2 + (b[3] \div 128)
FFrac(b) == b[1] + 256 * b[2] + 65536 * (b[3] % 128)

\* |x - y| <= h, and on the tie |x - y| = h the significand M is even.
Nearest(x, y, h, M) ==
    LET d == IF x >= y THEN x - y ELSE y - x
    IN d < h \/ (d = h /\ M % 2 = 0)

\* Integer to float: the result is the binary32 number nearest to the
\* source, ties to even.
FloatOfIntOk(S, src, dst) ==
    LET e == FExp(dst)
        M == FFrac(dst) + 8388608
        E == e - 150
    IN IF Wide(S, src)
       THEN IF IsSignedType(S)
            THEN dst = <<0, 0, 0, 207>>
            ELSE \* v = U + 2^31 with U below 2^31
                 LET U == (S32(src) + 2147483647) + 1
                 IN /\ FSign(dst) = 0
                    /\ \/ E = 8 /\ Nearest(U, FFrac(dst) * 256, 128, M)
                       \/ E = 9 /\ FFrac(dst) = 0 /\ (2147483647 - U) + 1 <= 128
       ELSE LET v == NumVal(S, src)
                mag == IF v < 0 THEN 0 - v ELSE v
            IN IF mag = 0 THEN dst = <<0, 0, 0, 0>>
               ELSE /\ FSign(dst) = (IF v < 0 THEN 1 ELSE 0)
                    /\ e > 0 /\ e < 255
                    /\ E <= 8
                    /\ IF E <= 0 THEN M = mag * Pow2(0 - E)
                       ELSE IF E = 8 THEN FFrac(dst) = 0 /\ 2147483647 - mag < 128
                       ELSE Nearest(mag, M * Pow2(E), Pow2(E - 1), M)

\* Float to integer: the result is the source truncated towards zero,
\* whenever the destination type can hold that number (anything otherwise).
IntOfFloatOk(D, src, dst) ==
    LET wd == getComponentByteSize(D)
        s == FSign(src)
        e == FExp(src)
        M == IF e = 0 THEN FFrac(src) ELSE FFrac(src) + 8388608
        E == (IF e = 0 THEN 1 ELSE e) - 150
        k == 0 - E
        b == IF IsSignedType(D) THEN 8 * wd - 1 ELSE 8 * wd
        v == NumVal(D, dst)
        a == IF v < 0 THEN 0 - v ELSE v
    IN IF e = 255 \/ E > 8 THEN TRUE
       ELSE IF E = 8
       THEN IF D = "UnsignedInt" /\ s = 0
            THEN (S32(dst) + 2147483647) + 1 = FFrac(src) * 256
            ELSE IF D = "Int" /\ s = 1 /\ FFrac(src) = 0 THEN dst = <<0, 0, 0, 128>>
            ELSE TRUE
       ELSE IF E >= 0
       THEN IF D = "Int" THEN v = (IF s = 1 THEN 0 - M * Pow2(E) ELSE M * Pow2(E))
            ELSE IF D = "UnsignedInt" /\ s = 0 THEN v = M * Pow2(E)
            ELSE TRUE
       ELSE IF k > 24 THEN v = 0
       ELSE LET holds == IF s = 0 THEN b + k >= 24 \/ M < Pow2(b + k)
                         ELSE IF IsSignedType(D)
                              THEN b + k >= 24 \/ M < (Pow2(b) + 1) * Pow2(k)
                              ELSE M < Pow2(k)
            IN holds => /\ a * Pow2(k) <= M
                        /\ M < (a + 1) * Pow2(k)
                        /\ v # 0 => (v < 0 <=> s = 1)

\* The conversion static_cast<D>(S value) as numbers.
CastOk(S, D, src, dst) ==
    /\ Len(dst) = getComponentByteSize(D)
    /\ IF IsFloatType(S)
       THEN IF IsFloatType(D) THEN dst = src ELSE IntOfFloatOk(D, src, dst)
       ELSE IF IsFloatType(D) THEN FloatOfIntOk(S, src, dst)
            ELSE IntCastOk(S, D, src, dst)

\* The bytes of buffer `bufferIndex` at offsets off .. off + n - 1.
BytesAt(bufferIndex, off, n) ==
    [k \in 1..n |-> BufferAt(asset, bufferIndex).bytes[off + k]]

\* The stride the data model gives the accessor's view.
ViewStride ==
    LET view == ViewAt(asset, accessor.bufferViewIndex.value)
    IN IF view.byteStride.has_value THEN view.byteStride.value
       ELSE getElementByteSize(accessor.type, accessor.componentType)

\* The byte offset of element i in the buffer of the accessor's view.
ElementOffset(i) ==
    ViewAt(asset, accessor.bufferViewIndex.value).byteOffset + accessor.byteOffset
    + i * ViewStride

DenseWithView == ~accessor.sparse.has_value /\ accessor.bufferViewIndex.has_value

\* C4: for a non-sparse accessor with a buffer view and i < accessor.count,
\* getAccessorElement(i) is the components read from the source bytes at
\* view.byteOffset + accessor.byteOffset + i * stride under the accessor's
\* component type, each converted to the output component type, component j
\* of the input landing in component j of the output.
C4_DenseGetConverts ==
    (/\ Returned("getAccessorElement")
     /\ DenseWithView
     /\ TypeMatches
     /\ call.index < accessor.count)
    => LET S == accessor.componentType
           D == call.ElementType.component_type
           ws == getComponentByteSize(S)
           wd == getComponentByteSize(D)
           n == getNumComponents(accessor.type)
           buf == ViewAt(asset, accessor.bufferViewIndex.value).bufferIndex
       IN /\ outcome = "ok"
          /\ Len(result) = n * wd
          /\ \A j \in 0..(n - 1) :
                CastOk(S, D,
                       BytesAt(buf, ElementOffset(call.index) + j * ws, ws),
                       [k \in 1..wd |-> result[j * wd + k]])

\* C4 witness: a strided Vec2 accessor of shorts read as floats at index 1.
C4_Witness ==
    /\ Returned("getAccessorElement")
    /\ DenseWithView
    /\ TypeMatches
    /\ outcome = "ok"
    /\ call.index = 1
    /\ call.index < accessor.count
    /\ accessor.type = "Vec2"
    /\ accessor.componentType = "Short"
    /\ call.ElementType.component_type = "Float"
    /\ ViewAt(asset, accessor.bufferViewIndex.value).byteStride.has_value

\* C5: without a buffer view, getAccessorElement(i) is the zero element for
\* every index i no sparse entry covers, and copyFromAccessor writes the zero
\* element into every destination slot i < accessor.count no sparse entry
\* covers, with or without a sparse overlay.
C5_NoViewIsZero ==
    /\ (/\ Returned("getAccessorElement")
        /\ ~accessor.bufferViewIndex.has_value
        /\ WellFormedSparse
        /\ TypeMatches
        /\ call.index < accessor.count
        /\ ~Covered(call.index))
       => (outcome = "ok" /\ result = ZeroElement(call.ElementType))
    /\ (/\ Returned("copyFromAccessor")
        /\ ~accessor.bufferViewIndex.has_value
        /\ WellFormedSparse
        /\ TypeMatches)
       => /\ outcome = "ok"
          /\ \A i \in 0..(accessor.count - 1) :
                ~Covered(i) => Slot(i) = ZeroElement(call.ElementType)

\* Whether the call of copyFromAccessor took the flat-copy path of line 361.
FastPath ==
    /\ Returned("copyFromAccessor")
    /\ DenseWithView
    /\ TypeMatches
    /\ call.ElementType.trivial
    /\ ViewStride = getElementByteSize(accessor.type, accessor.componentType)
    /\ ViewStride = call.TargetStride

\* C6: when copyFromAccessor takes the flat-copy fast path, the destination
\* bytes are those the per-element convert-and-write path produces on the
\* same input, for every accessor component type.
C6_FastPathEqualsConvertPath ==
    FastPath
    => dest = WriteAll(FreshDest(call.TargetStride, accessor.count),
                       ConvertCopyChunks(call.ElementType, call.TargetStride,
                                         asset, accessor, call.g),
                       1)

\* ---- stride independence, for C7
\* The bytes of the accessor's elements, gathered from the view and packed.
PackedData ==
    LET elemSize == getElementByteSize(accessor.type, accessor.componentType)
        buf == ViewAt(asset, accessor.bufferViewIndex.value).bufferIndex
    IN [k \in 1..(elemSize * accessor.count) |->
          BytesAt(buf, ElementOffset((k - 1) \div elemSize), elemSize)[((k - 1) % elemSize) + 1]]

\* A densely packed view holding the same elements, and the accessor on it.
PackedAsset ==
    [buffers |-> <<[data |-> "Vector", bytes |-> PackedData]>>,
     bufferViews |-> <<[bufferIndex |-> 0, byteOffset |-> 0, byteStride |-> Nullopt]>>]

PackedAccessor == [accessor EXCEPT !.byteOffset = 0, !.bufferViewIndex = Some(0)]

\* The addresses of elements 0 .. accessor.count - 1 under the data model.
AllElementAddrs ==
    LET elemSize == getElementByteSize(accessor.type, accessor.componentType)
        buf == ViewAt(asset, accessor.bufferViewIndex.value).bufferIndex
    IN UNION {Tag(buf, Span(ElementOffset(i), elemSize)) : i \in 0..(accessor.count - 1)}

\* C7: on a non-sparse accessor with a buffer view the three operations read
\* element i at view.byteOffset + accessor.byteOffset + i * stride, stride
\* being view.byteStride when present and the packed element size otherwise,
\* and they yield what they yield on a packed view holding the same elements.
C7_StrideIndependence ==
    DenseWithView
    => LET E == call.ElementType
           buf == ViewAt(asset, accessor.bufferViewIndex.value).bufferIndex
       IN /\ Returned("getAccessorElement")
             => reads = Tag(buf, Span(ElementOffset(call.index),
                                      getNumComponents(E.type)
                                      * getComponentByteSize(accessor.componentType)))
          /\ (Returned("getAccessorElement") /\ TypeMatches
              /\ call.index < accessor.count)
             => /\ outcome = "ok"
                /\ result = getAccessorElement(E, PackedAsset, PackedAccessor,
                                               call.index, call.g).value
          /\ (Returned("iterateAccessor") /\ TypeMatches)
             => /\ outcome = "ok"
                /\ reads = AllElementAddrs
                /\ visited = iterateAccessor(E, PackedAsset, PackedAccessor,
                                             call.g, 0).calls
          /\ (Returned("copyFromAccessor") /\ TypeMatches)
             => /\ reads = AllElementAddrs
                /\ outcome = "ok"
                   => dest = copyFromAccessor(E, call.TargetStride, PackedAsset,
                                 PackedAccessor,
                                 FreshDest(call.TargetStride, accessor.count),
                                 call.g).dest

\* C7 witness: two elements copied from a view with an explicit stride wider
\* than the element into a destination of the element's own pitch, where the
\* packed view would take the flat-copy path.
C7_Witness ==
    /\ Returned("copyFromAccessor")
    /\ DenseWithView
    /\ TypeMatches
    /\ outcome = "ok"
    /\ accessor.count >= 2
    /\ call.ElementType.trivial
    /\ ViewAt(asset, accessor.bufferViewIndex.value).byteStride.has_value
    /\ ViewStride > getElementByteSize(accessor.type, accessor.componentType)
    /\ call.TargetStride = getElementByteSize(accessor.type, accessor.componentType)
    /\ call.TargetStride = SizeOf(call.ElementType)
    /\ \E i \in 0..(accessor.count - 1) : Slot(i) # ZeroElement(call.ElementType)

\* C8: getAccessorElement with index >= accessor.count ends in IndexError and
\* reads no byte at or past the position of element accessor.count.
C8_IndexErrorPastCount ==
    (Returned("getAccessorElement") /\ call.index >= accessor.count)
    => /\ outcome = "IndexError"
       /\ DenseWithView => \A r \in reads : r[2] < ElementOffset(accessor.count)

\* C9: getAccessorElement with an output type whose accessor type differs
\* from accessor.type ends in TypeMismatch, before any buffer byte is read.
C9_TypeMismatchOnGet ==
    (Returned("getAccessorElement") /\ ~TypeMatches)
    => (outcome = "TypeMismatch" /\ reads = {})

\* C10: when the sparse index array holds an index >= accessor.count or one
\* not strictly greater than its predecessor, iterateAccessor and
\* copyFromAccessor end in MalformedSparseData instead of a sequence.
C10_MalformedSparseReported ==
    (/\ Returned("iterateAccessor") \/ Returned("copyFromAccessor")
     /\ accessor.sparse.has_value
     /\ ~WellFormedSparse
     /\ TypeMatches)
    => outcome = "MalformedSparseData"

\* Whether the adapter yields a null span for buffer number b.
NullSpan(b) == BufferAt(asset, b).data \notin {"Vector", "ByteView"}

\* The buffers the operation called takes element bytes from: every buffer
\* behind a view of the accessor for getAccessorElement, and for the two
\* sequence operations when the types match and there is an element to visit.
NeededBuffers ==
    IF call.op # "getAccessorElement" /\ ~TypeMatches THEN {}
    ELSE IF accessor.sparse.has_value
    THEN IF call.op # "getAccessorElement" /\ accessor.sparse.value.count = 0 THEN {}
         ELSE {SparseLayout(asset, accessor).indicesBuffer,
               SparseLayout(asset, accessor).valuesBuffer}
    ELSE IF ~accessor.bufferViewIndex.has_value
            \/ (call.op # "getAccessorElement" /\ accessor.count = 0)
    THEN {}
    ELSE {ViewAt(asset, accessor.bufferViewIndex.value).bufferIndex}

\* C11: when the adapter yields a null span for a buffer the operation needs,
\* the operation ends in SourceUnavailable and reads through no address
\* derived from the null span.
C11_NullSpanReported ==
    (pc = "returned" /\ \E b \in NeededBuffers : NullSpan(b))
    => /\ outcome = "SourceUnavailable"
       /\ \A r \in reads : ~NullSpan(r[1])

\* C12: iterateAccessor on a non-sparse accessor with no buffer view invokes
\* the functor accessor.count times with the zero element, and indexes
\* neither asset.bufferViews nor asset.buffers (it runs into no undefined
\* behaviour and reads no buffer byte).
C12_IterateNoViewZero ==
    (/\ Returned("iterateAccessor")
     /\ ~accessor.sparse.has_value
     /\ ~accessor.bufferViewIndex.has_value
     /\ TypeMatches)
    => /\ outcome = "ok"
       /\ visited = [k \in 1..accessor.count |-> ZeroElement(call.ElementType)]
       /\ reads = {}

\* C13: when accessor.type differs from the accessor type of the output
\* type, iterateAccessor returns without invoking the functor and
\* copyFromAccessor returns with every destination byte as it was; neither
\* reads a buffer byte.
C13_MismatchIsNoOp ==
    /\ (Returned("iterateAccessor") /\ ~TypeMatches)
       => (outcome = "ok" /\ visited = <<>> /\ reads = {})
    /\ (Returned("copyFromAccessor") /\ ~TypeMatches)
       => /\ outcome = "ok"
          /\ dest = FreshDest(call.TargetStride, accessor.count)
          /\ writes = {}
          /\ reads = {}

\* copyFromAccessor returned from a mismatched call on an accessor that has
\* elements in a loaded buffer and a destination to write them to.
C13_Witness ==
    /\ Returned("copyFromAccessor")
    /\ ~TypeMatches
    /\ outcome = "ok"
    /\ accessor.count >= 2
    /\ accessor.bufferViewIndex.has_value
    /\ ~NullSpan(ViewAt(asset, accessor.bufferViewIndex.value).bufferIndex)
    /\ Len(dest) = call.TargetStride * accessor.count
    /\ Len(dest) > 0
====
